---------------------------- MODULE Spec2Model ----------------------------
(***************************************************************************)
(* CSV -> JSON converter: the row validator (utils/validators.js), the     *)
(* cell check and the report aggregation of App.jsx, and the App's state   *)
(* (file, rows, headers, schema text, message list) under its handlers;    *)
(* the schema normalizer and self-check of components/SchemaBuilder.jsx    *)
(* with the JSON text they exchange with the App, and the type inference.  *)
(*                                                                         *)
(* A JavaScript string is a sequence of one-character strings, so that     *)
(* trim, toLowerCase, replace, Number() and the e-mail pattern are         *)
(* computed character by character.  A JavaScript value is a record        *)
(* [t, s]: t is the typeof tag ("null" for null) and s the value's         *)
(* String() form (the empty sequence for undefined and null, whose String  *)
(* forms ToString supplies).                                               *)
(***************************************************************************)
EXTENDS Integers, Sequences, FiniteSets, TLC

VARIABLES
    file,             \* App.jsx useState: the selected file, or NoFile
    schemaText,       \* App.jsx useState: the schema JSON text
    rows,             \* App.jsx useState: decoded records
    errors,           \* App.jsx useState: the caller-visible message list
    headers,          \* App.jsx useState: decoded column names
    selectedCols,     \* App.jsx useState
    headerOrder,      \* App.jsx useState
    dragCol,          \* App.jsx useState
    saved,            \* the file handed to saveAs that the browser has not written yet
    pending,          \* parseCSV calls in flight
    renderPending,    \* a state update was committed and React has not rendered yet
    rowsChanged,      \* setRows was called since the last render (new array identity)
    memoSchemaText,   \* schemaText dependency of the cached validationReport
    memoRows,         \* rows dependency of the cached validationReport
    validationReport, \* useMemo cache
    hasErrors,        \* value of the last render
    errorIndexSet,    \* useMemo cache
    columnErrorCount, \* useMemo cache
    dateEngine,       \* the host's Date.parse: its fallback for non-ISO text
    vRow,             \* validateRow / cellHasError under test: the row
    vSchema,          \*   the schema
    vErrors,          \*   validateRow's result
    vAgain,           \*   validateRow's result on a second call
    vCells,           \*   cellHasError per own column of the row
    vPc,              \*   "idle" | "input" | "validated"
    fnIn,             \* a function of the program applied on its own: its arguments
    fnOut,            \*   its results
    fnPc              \*   "idle" | "schema" | "coerce" | "infer" | "export" | "done"

appVars == <<file, schemaText, rows, errors, headers, selectedCols, headerOrder,
             dragCol, saved, pending, renderPending, rowsChanged, memoSchemaText,
             memoRows, validationReport, hasErrors, errorIndexSet, columnErrorCount>>
fnVars == <<vRow, vSchema, vErrors, vAgain, vCells, vPc, fnIn, fnOut, fnPc>>
vars == <<appVars, fnVars, dateEngine>>

-----------------------------------------------------------------------------
(* Bounds *)

MaxFields == 2      \* longest schema handed to validateRow in SpecValidate
MaxPending == 2     \* parseCSV calls in flight at once
MaxElems == 3       \* longest decoded JSON array handed to normalizeFields

-----------------------------------------------------------------------------
(* Text literals of the source *)

S_number == <<"n","u","m","b","e","r">>
S_currency == <<"c","u","r","r","e","n","c","y">>
S_boolean == <<"b","o","o","l","e","a","n">>
S_date == <<"d","a","t","e">>
S_email == <<"e","m","a","i","l">>
S_string == <<"s","t","r","i","n","g">>
S_undefined == <<"u","n","d","e","f","i","n","e","d">>
S_null == <<"n","u","l","l">>
S_true == <<"t","r","u","e">>
S_false == <<"f","a","l","s","e">>
S_NaN == <<"N","a","N">>
S_Infinity == <<"I","n","f","i","n","i","t","y">>
S_name == <<"n","a","m","e">>
S_age == <<"a","g","e">>
S_valueOf == <<"v","a","l","u","e","O","f">>

LowerLetters == <<"a","b","c","d","e","f","g","h","i","j","k","l","m","n","o","p","q","r","s","t","u","v","w","x","y","z">>
UpperLetters == <<"A","B","C","D","E","F","G","H","I","J","K","L","M","N","O","P","Q","R","S","T","U","V","W","X","Y","Z">>
Digits == {"0","1","2","3","4","5","6","7","8","9"}

-----------------------------------------------------------------------------
(* JavaScript values and the string operations the source uses *)

Str(s) == [t |-> "string", s |-> s]
Num(s) == [t |-> "number", s |-> s]
Bool(b) == [t |-> "boolean", s |-> IF b THEN S_true ELSE S_false]
Undefined == [t |-> "undefined", s |-> <<>>]
Null == [t |-> "null", s |-> <<>>]
Fn(src) == [t |-> "function", s |-> src]

\* String(value)
StringOf(v) ==
    CASE v.t = "undefined" -> S_undefined
      [] v.t = "null" -> S_null
      [] OTHER -> v.s

\* truthiness, as `&&` and Boolean() take it
Truthy(v) ==
    CASE v.t = "undefined" -> FALSE
      [] v.t = "null" -> FALSE
      [] v.t = "boolean" -> v.s = S_true
      [] v.t = "string" -> v.s # <<>>
      [] v.t = "number" -> v.s \notin {<<"0">>, S_NaN}
      [] OTHER -> TRUE

\* \s of the regular expressions and of trim(): the white space of the inputs
IsSpace(c) == c \in {" ", "\t", "\n"}

RECURSIVE trimStart(_)
trimStart(s) == IF s # <<>> /\ IsSpace(Head(s)) THEN trimStart(Tail(s)) ELSE s

RECURSIVE trimEnd(_)
trimEnd(s) ==
    IF s # <<>> /\ IsSpace(s[Len(s)]) THEN trimEnd(SubSeq(s, 1, Len(s) - 1)) ELSE s

\* String.prototype.trim
trim(s) == trimEnd(trimStart(s))

LowerOf(c) ==
    IF \E i \in 1..Len(UpperLetters) : UpperLetters[i] = c
    THEN LowerLetters[CHOOSE i \in 1..Len(UpperLetters) : UpperLetters[i] = c]
    ELSE c

\* String.prototype.toLowerCase / toLocaleLowerCase
toLowerCase(s) == [i \in 1..Len(s) |-> LowerOf(s[i])]

\* s.replace(/[chars]/g, '')
RECURSIVE RemoveChars(_, _)
RemoveChars(s, chars) ==
    IF s = <<>> THEN <<>>
    ELSE IF Head(s) \in chars THEN RemoveChars(Tail(s), chars)
    ELSE <<Head(s)>> \o RemoveChars(Tail(s), chars)

AllDigits(s) == \A i \in 1..Len(s) : s[i] \in Digits

RECURSIVE StripLeadingZeros(_)
StripLeadingZeros(s) ==
    IF Len(s) > 1 /\ Head(s) = "0" THEN StripLeadingZeros(Tail(s)) ELSE s

RECURSIVE StripTrailingZeros(_)
StripTrailingZeros(s) ==
    IF s # <<>> /\ s[Len(s)] = "0"
    THEN StripTrailingZeros(SubSeq(s, 1, Len(s) - 1)) ELSE s

IndexOfChar(s, c) ==
    IF \E i \in 1..Len(s) : s[i] = c
    THEN CHOOSE i \in 1..Len(s) : s[i] = c /\ \A j \in 1..(i - 1) : s[j] # c
    ELSE 0

\* The unsigned decimal literal `body` (digits, at most one point, at least
\* one digit) as the number's String() form; S_NaN when it is no literal.
\* Exponent and radix-prefixed literals do not occur in the inputs.
DecimalForm(body, negative) ==
    LET dot == IndexOfChar(body, ".")
        int == IF dot = 0 THEN body ELSE SubSeq(body, 1, dot - 1)
        frac == IF dot = 0 THEN <<>> ELSE SubSeq(body, dot + 1, Len(body))
        i2 == IF int = <<>> THEN <<"0">> ELSE StripLeadingZeros(int)
        f2 == StripTrailingZeros(frac)
        zero == i2 = <<"0">> /\ f2 = <<>>
    IN  IF ~AllDigits(int) \/ ~AllDigits(frac) \/ (int = <<>> /\ frac = <<>>)
        THEN S_NaN
        ELSE (IF negative /\ ~zero THEN <<"-">> ELSE <<>>)
             \o i2 \o (IF f2 = <<>> THEN <<>> ELSE <<".">> \o f2)

\* Number(string): StringToNumber
StringToNumber(s) ==
    LET t == trim(s)
        signed == t # <<>> /\ Head(t) \in {"+", "-"}
        negative == t # <<>> /\ Head(t) = "-"
        body == IF signed THEN Tail(t) ELSE t
    IN  IF t = <<>> THEN Num(<<"0">>)
        ELSE IF body = S_Infinity
        THEN Num((IF negative THEN <<"-">> ELSE <<>>) \o S_Infinity)
        ELSE Num(DecimalForm(body, negative))

\* Number(value)
ToNumber(v) ==
    CASE v.t = "string" -> StringToNumber(v.s)
      [] v.t = "number" -> v
      [] v.t = "boolean" -> Num(IF v.s = S_true THEN <<"1">> ELSE <<"0">>)
      [] v.t = "null" -> Num(<<"0">>)
      [] OTHER -> Num(S_NaN)

\* isNaN(number) and Number.isFinite(number)
IsNaNNumber(n) == n.s = S_NaN
IsFiniteNumber(n) == n.s \notin {S_NaN, S_Infinity, <<"-">> \o S_Infinity}

\* The date-only forms of the ECMAScript date-time string format, which
\* every Date.parse accepts: YYYY, YYYY-MM, YYYY-MM-DD.
DigitSeq == <<"0","1","2","3","4","5","6","7","8","9">>
DigitVal(c) == (CHOOSE i \in 1..10 : DigitSeq[i] = c) - 1
TwoDigitsIn(s, lo, hi) ==
    /\ Len(s) = 2 /\ AllDigits(s)
    /\ 10 * DigitVal(s[1]) + DigitVal(s[2]) \in lo..hi

IsISODate(s) ==
    \/ Len(s) = 4 /\ AllDigits(s)
    \/ /\ Len(s) = 7 /\ AllDigits(SubSeq(s, 1, 4)) /\ s[5] = "-"
       /\ TwoDigitsIn(SubSeq(s, 6, 7), 1, 12)
    \/ /\ Len(s) = 10 /\ AllDigits(SubSeq(s, 1, 4)) /\ s[5] = "-"
       /\ TwoDigitsIn(SubSeq(s, 6, 7), 1, 12) /\ s[8] = "-"
       /\ TwoDigitsIn(SubSeq(s, 9, 10), 1, 31)

\* Text outside the standard format, which a host's Date.parse may or may
\* not accept (implementation-defined): digit-only text around white space.
IsLegacyDateText(s) == trim(s) # <<>> /\ AllDigits(trim(s))

\* !Number.isNaN(Date.parse(string)) under the given host
DateParses(s, engine) ==
    \/ IsISODate(s)
    \/ engine = "lenient" /\ IsLegacyDateText(s)

\* /^[^\s@]+@[^\s@]+\.[^\s@]+$/.test(s)
IsPlain(s) == s # <<>> /\ \A i \in 1..Len(s) : ~IsSpace(s[i]) /\ s[i] # "@"
EmailPattern(s) ==
    \E i \in 1..Len(s) : \E j \in 1..Len(s) :
        /\ i < j
        /\ s[i] = "@"
        /\ s[j] = "."
        /\ IsPlain(SubSeq(s, 1, i - 1))
        /\ IsPlain(SubSeq(s, i + 1, j - 1))
        /\ IsPlain(SubSeq(s, j + 1, Len(s)))

-----------------------------------------------------------------------------
(* Records: plain objects made by the decoder with `{}`.  An object's own   *)
(* keys are the function's domain; `in` and property reads also see what   *)
(* Object.prototype supplies.                                              *)

S_fnValueOf == <<"f","u","n","c","t","i","o","n"," ","v","a","l","u","e","O","f","(",")"," ","{"," ","[","n","a","t","i","v","e"," ","c","o","d","e","]"," ","}">>

\* Object.prototype, restricted to the one inherited key the inputs name
ObjectPrototype == (S_valueOf :> Fn(S_fnValueOf))

HasOwn(obj, key) == key \in DOMAIN obj

\* key in obj
HasProperty(obj, key) == HasOwn(obj, key) \/ key \in DOMAIN ObjectPrototype

\* obj[key]
Get(obj, key) ==
    IF HasOwn(obj, key) THEN obj[key]
    ELSE IF key \in DOMAIN ObjectPrototype THEN ObjectPrototype[key]
    ELSE Undefined

\* An element of a decoded schema array is a field object, held as the
\* record of its name, type and required properties (Undefined for a key
\* it lacks), or a value that is no object (null, a number, a string).
IsObject(e) == "name" \in DOMAIN e

\* The properties validateRow reads of a schema element that is not null:
\* a primitive has none of them
PropsOf(e) ==
    IF IsObject(e) THEN e
    ELSE [name |-> Undefined, type |-> Undefined, required |-> Undefined]

-----------------------------------------------------------------------------
(* utils/validators.js *)

required(value) ==
    value.t \notin {"undefined", "null"} /\ trim(StringOf(value)) # <<>>

isNumber(value) ==
    IF value = Str(<<>>) \/ value.t \in {"null", "undefined"} THEN FALSE
    ELSE ~IsNaNNumber(ToNumber(value))

isEmail(value) ==
    IF ~required(value) THEN FALSE
    ELSE EmailPattern(toLowerCase(StringOf(value)))

BooleanTokens == {S_true, S_false, <<"0">>, <<"1">>}

isBoolean(value) ==
    IF value.t = "boolean" THEN TRUE
    ELSE trim(toLowerCase(StringOf(value))) \in BooleanTokens

toBoolean(value) ==
    LET v == trim(toLowerCase(StringOf(value)))
    IN  Bool(v = S_true \/ v = <<"1">>)

CurrencyChars == {"$", "€", "£", ",", " "}

stripCurrency(value) == RemoveChars(StringOf(value), CurrencyChars)

isCurrency(value) ==
    IF ~required(value) THEN FALSE
    ELSE IsFiniteNumber(StringToNumber(stripCurrency(value)))

isDate(value, engine) ==
    IF ~required(value) THEN FALSE
    ELSE DateParses(StringOf(value), engine)

coerceType(value, type) ==
    CASE type = Str(S_number) ->
            IF value = Str(<<>>) THEN Null ELSE ToNumber(value)
      [] type = Str(S_currency) ->
            IF value = Str(<<>>) THEN Null ELSE StringToNumber(stripCurrency(value))
      [] type = Str(S_boolean) -> toBoolean(value)
      [] type = Str(S_date) -> Str(StringOf(value))
      [] type = Str(S_email) -> Str(StringOf(value))
      [] type = Str(S_string) ->
            IF value.t \in {"null", "undefined"} THEN Str(<<>>) ELSE Str(StringOf(value))
      [] OTHER -> value

L_Field == <<"F","i","e","l","d"," ","\"">>

MissingMsg(name) == <<"M","i","s","s","i","n","g"," ","c","o","l","u","m","n",":"," ">> \o StringOf(name)
RequiredMsg(name) == L_Field \o StringOf(name) \o <<"\""," ","i","s"," ","r","e","q","u","i","r","e","d">>
NumberMsg(name) == L_Field \o StringOf(name) \o <<"\""," ","m","u","s","t"," ","b","e"," ","a"," ","n","u","m","b","e","r">>
CurrencyMsg(name) == L_Field \o StringOf(name) \o <<"\""," ","m","u","s","t"," ","b","e"," ","c","u","r","r","e","n","c","y","/","n","u","m","b","e","r">>
EmailMsg(name) == L_Field \o StringOf(name) \o <<"\""," ","m","u","s","t"," ","b","e"," ","a"," ","v","a","l","i","d"," ","e","m","a","i","l">>
BooleanMsg(name) == L_Field \o StringOf(name) \o <<"\""," ","m","u","s","t"," ","b","e"," ","b","o","o","l","e","a","n"," ","(","t","r","u","e","/","f","a","l","s","e","/","1","/","0",")">>
DateMsg(name) == L_Field \o StringOf(name) \o <<"\""," ","m","u","s","t"," ","b","e"," ","a"," ","v","a","l","i","d"," ","d","a","t","e">>

\* Mutant of PushIf: the message goes to the front (unshift for push)
PushIfFront(errs, cond, m) == IF cond THEN <<m>> \o errs ELSE errs

\* if (cond) errors.push(m)
PushIf(errs, cond, m) == IF cond THEN Append(errs, m) ELSE errs

\* The conditions of validateRow's rules, on the raw value and the coerced one
RequiredRule(field, val) == Truthy(field.required) /\ ~required(val)
CurrencyRule(field, raw) == field.type = Str(S_currency) /\ required(raw) /\ ~isCurrency(raw)
\* Mutant of NumberRule: the rule without its presence test
NumberRuleOnAbsent(field, raw) == field.type = Str(S_number) /\ ~isNumber(raw)
NumberRule(field, raw) == field.type = Str(S_number) /\ required(raw) /\ ~isNumber(raw)
\* Mutant of EmailRule: the rule without its presence test
EmailRuleOnAbsent(field, raw) == field.type = Str(S_email) /\ ~isEmail(raw)
EmailRule(field, raw) == field.type = Str(S_email) /\ required(raw) /\ ~isEmail(raw)
BooleanRule(field, raw) == field.type = Str(S_boolean) /\ required(raw) /\ ~isBoolean(raw)
DateRule(field, raw, engine) ==
    field.type = Str(S_date) /\ required(raw) /\ ~isDate(raw, engine)

\* One iteration of validateRow's loop: errs with the messages it pushes
validateField(errs, row, field, engine) ==
    IF ~HasProperty(row, StringOf(field.name))
    THEN Append(errs, MissingMsg(field.name))
    ELSE
      LET raw == Get(row, StringOf(field.name))
          val == coerceType(raw, field.type)
          e1 == PushIf(errs, RequiredRule(field, val), RequiredMsg(field.name))
          e2 == PushIf(e1, NumberRule(field, raw), NumberMsg(field.name))
          e3 == PushIf(e2, CurrencyRule(field, raw), CurrencyMsg(field.name))
          e4 == PushIf(e3, EmailRule(field, raw), EmailMsg(field.name))
          e5 == PushIf(e4, BooleanRule(field, raw), BooleanMsg(field.name))
          e6 == PushIf(e5, DateRule(field, raw, engine), DateMsg(field.name))
      IN  e6

RECURSIVE validateLoop(_, _, _, _, _)
validateLoop(errs, row, schema, i, engine) ==
    IF i > Len(schema) THEN errs
    ELSE validateLoop(validateField(errs, row, PropsOf(schema[i]), engine),
                      row, schema, i + 1, engine)

\* validateRow throws instead of returning: `field.name` on a null element
\* is a TypeError, and nothing in the loop leaves before reaching it
validateRowThrows(schema) == \E i \in 1..Len(schema) : schema[i] = Null

\* The list validateRow returns, when it returns
validateRow(row, schema, engine) == validateLoop(<<>>, row, schema, 1, engine)

-----------------------------------------------------------------------------
(* App.jsx: the cell check *)

\* schema.find(x => x.name === colName): the index of the first match, 0 if none
FindField(schema, colName) ==
    IF \E i \in 1..Len(schema) : schema[i].name = Str(colName)
    THEN CHOOSE i \in 1..Len(schema) :
            /\ schema[i].name = Str(colName)
            /\ \A j \in 1..(i - 1) : schema[j].name # Str(colName)
    ELSE 0

cellHasError(row, schema, colName, engine) ==
    LET i == FindField(schema, colName)
        f == schema[i]
        v == Get(row, colName)
    IN  IF i = 0 THEN FALSE
        ELSE IF Truthy(f.required) /\ (v = Str(<<>>) \/ v.t \in {"null", "undefined"})
        THEN TRUE
        ELSE IF f.type = Str(S_number) /\ v # Str(<<>>) /\ IsNaNNumber(ToNumber(v))
        THEN TRUE
        ELSE IF /\ f.type = Str(S_currency) /\ v # Str(<<>>)
                /\ IsNaNNumber(StringToNumber(RemoveChars(StringOf(v), CurrencyChars)))
        THEN TRUE
        ELSE IF f.type = Str(S_email) /\ Truthy(v) /\ ~EmailPattern(StringOf(v))
        THEN TRUE
        ELSE IF /\ f.type = Str(S_boolean) /\ Truthy(v)
                /\ toLowerCase(StringOf(v)) \notin BooleanTokens
        THEN TRUE
        ELSE IF f.type = Str(S_date) /\ Truthy(v) /\ ~DateParses(StringOf(v), engine)
        THEN TRUE
        ELSE FALSE

-----------------------------------------------------------------------------
(* App.jsx: schema text, report and aggregates *)

Field(name, type, req) == [name |-> Str(name), type |-> Str(type), required |-> Bool(req)]

DEFAULT_SCHEMA ==
    << Field(S_name, S_string, TRUE),
       Field(S_email, S_email, TRUE),
       Field(S_age, S_number, FALSE) >>

L_unexpectedToken == <<"U","n","e","x","p","e","c","t","e","d"," ","t","o","k","e","n">>
L_mustBeArray == <<"S","c","h","e","m","a"," ","m","u","s","t"," ","b","e"," ","a","n"," ","a","r","r","a","y">>

\* A JSON text is held as what JSON.parse makes of it: a syntax error with
\* the host's message, a value that is no array, or an array of elements.
\* JSON.stringify(schema, null, 2)
JSONStringify(schema) == [syntax |-> "ok", array |-> TRUE, elems |-> schema, msg |-> <<>>]
MalformedText == [syntax |-> "bad", array |-> FALSE, elems |-> <<>>, msg |-> L_unexpectedToken]
ObjectText == [syntax |-> "ok", array |-> FALSE, elems |-> <<>>, msg |-> <<>>]

\* JSON.parse(text) throws
JSONParseThrows(text) == text.syntax = "bad"

\* currentSchema(): the message of the error it catches, <<>> when none
SchemaThrown(text) ==
    IF JSONParseThrows(text) THEN text.msg
    ELSE IF ~text.array THEN L_mustBeArray
    ELSE <<>>

\* currentSchema(): the schema it returns
currentSchema(text) ==
    IF SchemaThrown(text) # <<>> THEN DEFAULT_SCHEMA ELSE text.elems

SchemaErrorMsg(text) == <<"S","c","h","e","m","a"," ","e","r","r","o","r",":"," ">> \o SchemaThrown(text)

parsedSchema(text) ==
    IF JSONParseThrows(text) THEN <<>>
    ELSE IF text.array THEN text.elems ELSE <<>>

\* Mutant of ReportEntry: the 0-based index is reported
ReportEntryZeroBased(row, idx, schema, engine) ==
    [index |-> idx, errors |-> validateRow(row, schema, engine)]

\* One element of rows.map in validationReport; idx is the 0-based index
ReportEntry(row, idx, schema, engine) ==
    [index |-> idx + 1, errors |-> validateRow(row, schema, engine)]

\* The body of the validationReport memo, without its setErrors
ComputeReport(rs, text, engine) ==
    IF Len(rs) = 0 THEN <<>>
    ELSE [k \in 1..Len(rs) |-> ReportEntry(rs[k], k - 1, currentSchema(text), engine)]

\* validationReport.some(r => r.errors.length > 0)
ComputeHasErrors(report) == \E k \in 1..Len(report) : Len(report[k].errors) > 0

\* Mutant of ComputeErrorIndexSet: every entry's index is added
ErrorIndexSetOfAll(report) == {report[k].index : k \in 1..Len(report)}

\* The body of the errorIndexSet memo
ComputeErrorIndexSet(report) ==
    {report[k].index : k \in {j \in 1..Len(report) : Len(report[j].errors) > 0}}

Range(s) == {s[i] : i \in 1..Len(s)}

\* The body of the columnErrorCount memo
ComputeColumnErrorCount(rs, hs, schema, engine) ==
    [h \in Range(hs) |->
        IF Len(rs) = 0 \/ Len(schema) = 0 THEN 0
        ELSE Cardinality({k \in 1..Len(rs) : cellHasError(rs[k], schema, h, engine)})]

\* Mutant of inferType: the boolean tokens are tested before the number
inferTypeBooleanFirst(sample, engine) ==
    IF sample = Str(<<>>) \/ sample.t \in {"null", "undefined"} THEN S_string
    ELSE IF trim(toLowerCase(StringOf(sample))) \in BooleanTokens THEN S_boolean
    ELSE IF ~IsNaNNumber(StringToNumber(RemoveChars(StringOf(sample), CurrencyChars)))
    THEN S_number
    ELSE IF DateParses(StringOf(sample), engine) THEN S_date
    ELSE S_string

inferType(sample, engine) ==
    IF sample = Str(<<>>) \/ sample.t \in {"null", "undefined"} THEN S_string
    ELSE IF ~IsNaNNumber(StringToNumber(RemoveChars(StringOf(sample), CurrencyChars)))
    THEN S_number
    ELSE IF trim(toLowerCase(StringOf(sample))) \in BooleanTokens THEN S_boolean
    ELSE IF DateParses(StringOf(sample), engine) THEN S_date
    ELSE S_string

\* Mutant of inferSchemaFromData: the last record is sampled
inferSchemaFromLast(rs, hs, engine) ==
    IF Len(rs) = 0 \/ Len(hs) = 0 THEN <<>>
    ELSE [i \in 1..Len(hs) |->
            Field(hs[i], inferType(Get(rs[Len(rs)], hs[i]), engine), FALSE)]

inferSchemaFromData(rs, hs, engine) ==
    IF Len(rs) = 0 \/ Len(hs) = 0 THEN <<>>
    ELSE [i \in 1..Len(hs) |-> Field(hs[i], inferType(Get(rs[1], hs[i]), engine), FALSE)]

-----------------------------------------------------------------------------
(* The files a user can pick, each with what the file API and the decoder  *)
(* (Papa.parse, header mode) deliver for it.                               *)

NoFile == "none"
FileIds == {"clean", "dirty", "short", "binary", "gone"}

S_email_ok == <<"a","@","b",".","c">>
Row3(n, e, a) == (S_name :> Str(n)) @@ (S_email :> Str(e)) @@ (S_age :> Str(a))

L_tooFew == <<"T","o","o"," ","f","e","w"," ","f","i","e","l","d","s">>
L_notReadable == <<"N","o","t","R","e","a","d","a","b","l","e","E","r","r","o","r">>

\* kind: "csv" text, "binary" (a NUL in the first 4096 bytes), or "gone"
\* (the file can no longer be read when a read is attempted)
FileOf(f) ==
    CASE f = "clean" ->
           [name |-> <<"a",".","c","s","v">>, kind |-> "csv",
            fields |-> <<S_name, S_email, S_age>>,
            data |-> << Row3(<<"A","n","n">>, S_email_ok, <<"3","0">>),
                        Row3(<<"B","o","b">>, <<"b","@","c",".","d">>, <<>>) >>,
            errors |-> <<>>]
      [] f = "dirty" ->
           [name |-> <<"d",".","c","s","v">>, kind |-> "csv",
            fields |-> <<S_name, S_email, S_age>>,
            data |-> << Row3(<<"A","n","n">>, S_email_ok, <<"3","0">>),
                        Row3(<<>>, <<"a","@","b">>, <<"7">>),
                        Row3(<<"C","y">>, <<"c","@">>, <<"a","b","c">>) >>,
            errors |-> <<>>]
      [] f = "short" ->
           [name |-> <<"s",".","c","s","v">>, kind |-> "csv",
            fields |-> <<S_name, S_email>>,
            data |-> << (S_name :> Str(<<"A","n","n">>)) @@ (S_email :> Str(S_email_ok)),
                        (S_name :> Str(<<"B","o","b">>)) >>,
            errors |-> << [row |-> Num(<<"1">>), message |-> L_tooFew] >>]
      [] f = "binary" ->
           [name |-> <<"b",".","b","i","n">>, kind |-> "binary",
            fields |-> <<>>, data |-> <<>>, errors |-> <<>>]
      [] f = "gone" ->
           [name |-> <<"g",".","c","s","v">>, kind |-> "gone",
            fields |-> <<>>, data |-> <<>>, errors |-> <<>>]

\* The texts typed into, or uploaded to, the schema box
SchemaTexts ==
    { JSONStringify(DEFAULT_SCHEMA),
      MalformedText,
      ObjectText,
      JSONStringify(<<>>),
      JSONStringify(<< Field(S_email, S_email, FALSE), Field(S_age, S_number, TRUE) >>) }

-----------------------------------------------------------------------------
(* App.jsx: state and handlers.  A handler commits its state updates and   *)
(* React then renders before anything else runs: Render is the only step   *)
(* enabled while renderPending.                                            *)

Stages == {"sample", "papa"}
PendingKeys == FileIds \X Stages

RECURSIVE SumOver(_, _)
SumOver(f, S) ==
    IF S = {} THEN 0
    ELSE LET x == CHOOSE y \in S : TRUE IN f[x] + SumOver(f, S \ {x})

InFlight == SumOver(pending, PendingKeys)

Started(p, f, stage) == [p EXCEPT ![<<f, stage>>] = @ + 1]
Ended(p, f, stage) == [p EXCEPT ![<<f, stage>>] = @ - 1]


NotTextMsg(name) == <<"\"">> \o name \o <<"\""," ","d","o","e","s"," ","n","o","t"," ","l","o","o","k"," ","l","i","k","e"," ","a"," ","t","e","x","t","/","C","S","V"," ","f","i","l","e",".">>
FailedReadMsg(message) == <<"F","a","i","l","e","d"," ","t","o"," ","r","e","a","d"," ","f","i","l","e",":"," ">> \o message
ParseFailMsg(message) == <<"P","a","r","s","e"," ","e","r","r","o","r",":"," ">> \o message
ParseErrorMsg(e) ==
    <<"P","a","r","s","e"," ","e","r","r","o","r"," ","(","r","o","w"," ">>
    \o (IF e.row.t \in {"null", "undefined"} THEN <<"?">> ELSE StringOf(e.row))
    \o <<")", ":", " ">> \o e.message

\* results.errors.map(...) of the complete callback
ParseErrors(es) == [i \in 1..Len(es) |-> ParseErrorMsg(es[i])]

\* No download is waiting to be written
NoSave == [name |-> <<>>, body |-> <<>>]

AppInit ==
    /\ file = NoFile
    /\ schemaText = JSONStringify(DEFAULT_SCHEMA)
    /\ rows = <<>>
    /\ errors = <<>>
    /\ headers = <<>>
    /\ selectedCols = <<>>
    /\ headerOrder = <<>>
    /\ dragCol = Null
    /\ saved = NoSave
    /\ pending = [k \in PendingKeys |-> 0]
    /\ renderPending = FALSE
    /\ rowsChanged = FALSE
    /\ memoSchemaText = JSONStringify(DEFAULT_SCHEMA)
    /\ memoRows = <<>>
    /\ validationReport = <<>>
    /\ hasErrors = FALSE
    /\ errorIndexSet = {}
    /\ columnErrorCount = <<>>

FnIdle ==
    /\ vRow = <<>>
    /\ vSchema = <<>>
    /\ vErrors = <<>>
    /\ vAgain = <<>>
    /\ vCells = <<>>
    /\ vPc = "idle"
    /\ fnIn = <<>>
    /\ fnOut = <<>>
    /\ fnPc = "idle"

Engines == {"strict", "lenient"}

Init == AppInit /\ FnIdle /\ dateEngine \in Engines

renderVars == <<rowsChanged, memoSchemaText, memoRows, validationReport, hasErrors,
                errorIndexSet, columnErrorCount>>

\* handleFileSelected(f), with parseCSV(f) up to its first await
HandleFileSelected(f) ==
    /\ ~renderPending
    /\ f # NoFile => InFlight < MaxPending
    /\ file' = f
    /\ rows' = <<>>
    /\ errors' = <<>>
    /\ pending' = IF f # NoFile THEN Started(pending, f, "sample") ELSE pending
    /\ rowsChanged' = TRUE
    /\ renderPending' = TRUE
    /\ UNCHANGED <<schemaText, headers, selectedCols, headerOrder, dragCol, saved,
                   memoSchemaText, memoRows, validationReport, hasErrors,
                   errorIndexSet, columnErrorCount, fnVars, dateEngine>>

\* parseCSV: selectedFile.slice(0, 4096).text() rejects, caught at the end
SampleRejected(f) ==
    /\ ~renderPending
    /\ pending[<<f, "sample">>] > 0
    /\ FileOf(f).kind = "gone"
    /\ errors' = <<FailedReadMsg(L_notReadable)>>
    /\ pending' = Ended(pending, f, "sample")
    /\ renderPending' = TRUE
    /\ UNCHANGED <<file, schemaText, rows, headers, selectedCols, headerOrder, dragCol, saved,
                   renderVars, fnVars, dateEngine>>

\* parseCSV: the sample holds a NUL (looksBinary)
SampleBinary(f) ==
    /\ ~renderPending
    /\ pending[<<f, "sample">>] > 0
    /\ FileOf(f).kind = "binary"
    /\ errors' = <<NotTextMsg(FileOf(f).name)>>
    /\ pending' = Ended(pending, f, "sample")
    /\ renderPending' = TRUE
    /\ UNCHANGED <<file, schemaText, rows, headers, selectedCols, headerOrder, dragCol, saved,
                   renderVars, fnVars, dateEngine>>

\* parseCSV: the sample is text, Papa.parse is started
SampleText(f) ==
    /\ ~renderPending
    /\ pending[<<f, "sample">>] > 0
    /\ FileOf(f).kind \in {"csv", "gone"}
    /\ pending' = Started(Ended(pending, f, "sample"), f, "papa")
    /\ UNCHANGED <<file, schemaText, rows, errors, headers, selectedCols, headerOrder,
                   dragCol, saved, renderPending, renderVars, fnVars, dateEngine>>

\* Papa.parse's complete callback
ParseComplete(f) ==
    /\ ~renderPending
    /\ pending[<<f, "papa">>] > 0
    /\ FileOf(f).kind = "csv"
    /\ rows' = FileOf(f).data
    /\ headers' = FileOf(f).fields
    /\ headerOrder' = FileOf(f).fields
    /\ selectedCols' = FileOf(f).fields
    /\ errors' = ParseErrors(FileOf(f).errors)
    /\ pending' = Ended(pending, f, "papa")
    /\ rowsChanged' = TRUE
    /\ renderPending' = TRUE
    /\ UNCHANGED <<file, schemaText, dragCol, saved, memoSchemaText, memoRows, validationReport,
                   hasErrors, errorIndexSet, columnErrorCount, fnVars, dateEngine>>

\* Papa.parse's error callback
ParseFailed(f) ==
    /\ ~renderPending
    /\ pending[<<f, "papa">>] > 0
    /\ FileOf(f).kind = "gone"
    /\ errors' = <<ParseFailMsg(L_notReadable)>>
    /\ pending' = Ended(pending, f, "papa")
    /\ renderPending' = TRUE
    /\ UNCHANGED <<file, schemaText, rows, headers, selectedCols, headerOrder, dragCol, saved,
                   renderVars, fnVars, dateEngine>>

\* The schema textarea's onChange, and uploadSchema's setSchemaText(txt)
SetSchemaText(text) ==
    /\ ~renderPending
    /\ schemaText' = text
    /\ renderPending' = TRUE
    /\ UNCHANGED <<file, rows, errors, headers, selectedCols, headerOrder, dragCol, saved,
                   pending, renderVars, fnVars, dateEngine>>

clearAll ==
    /\ ~renderPending
    /\ file' = NoFile
    /\ rows' = <<>>
    /\ headers' = <<>>
    /\ errors' = <<>>
    /\ rowsChanged' = TRUE
    /\ renderPending' = TRUE
    /\ UNCHANGED <<schemaText, selectedCols, headerOrder, dragCol, saved, pending,
                   memoSchemaText, memoRows, validationReport, hasErrors,
                   errorIndexSet, columnErrorCount, fnVars, dateEngine>>

\* Ctrl/Cmd+I
useHeadersAsSchema ==
    /\ ~renderPending
    /\ LET inferred == inferSchemaFromData(rows, headers, dateEngine)
       IN  schemaText' = IF Len(inferred) > 0 THEN JSONStringify(inferred) ELSE schemaText
    /\ renderPending' = TRUE
    /\ UNCHANGED <<file, rows, errors, headers, selectedCols, headerOrder, dragCol, saved,
                   pending, renderVars, fnVars, dateEngine>>

\* SchemaBuilder's "Use headers as schema": push(inferred), then the
\* onUseHeaders callback, which is useHeadersAsSchema
useHeaders ==
    /\ ~renderPending
    /\ Len(headers) > 0
    /\ LET pushed == [i \in 1..Len(headers) |-> Field(headers[i], S_string, FALSE)]
           inferred == inferSchemaFromData(rows, headers, dateEngine)
       IN  schemaText' = IF Len(inferred) > 0 THEN JSONStringify(inferred)
                         ELSE JSONStringify(pushed)
    /\ renderPending' = TRUE
    /\ UNCHANGED <<file, rows, errors, headers, selectedCols, headerOrder, dragCol, saved,
                   pending, renderVars, fnVars, dateEngine>>

\* The validationReport memo recomputes when a dependency changed
MemoStale == rowsChanged \/ schemaText # memoSchemaText

\* One render of App after a committed update: the memos whose
\* dependencies changed are recomputed; currentSchema's setErrors, called
\* while the report is computed, lands with the same render.
Render ==
    /\ renderPending
    /\ validationReport' = IF MemoStale THEN ComputeReport(rows, schemaText, dateEngine)
                           ELSE validationReport
    /\ hasErrors' = ComputeHasErrors(validationReport')
    /\ errorIndexSet' = ComputeErrorIndexSet(validationReport')
    /\ errors' = IF MemoStale /\ Len(rows) > 0 /\ SchemaThrown(schemaText) # <<>>
                 THEN <<SchemaErrorMsg(schemaText)>>
                 ELSE errors
    /\ columnErrorCount' =
          ComputeColumnErrorCount(rows, headers, parsedSchema(schemaText), dateEngine)
    /\ memoSchemaText' = IF MemoStale THEN schemaText ELSE memoSchemaText
    /\ memoRows' = IF MemoStale THEN rows ELSE memoRows
    /\ rowsChanged' = FALSE
    /\ renderPending' = FALSE
    /\ UNCHANGED <<file, schemaText, rows, headers, selectedCols, headerOrder, dragCol, saved,
                   pending, fnVars, dateEngine>>

Next ==
    \/ \E f \in FileIds \cup {NoFile} : HandleFileSelected(f)
    \/ \E f \in FileIds : SampleRejected(f)
    \/ \E f \in FileIds : SampleBinary(f)
    \/ \E f \in FileIds : SampleText(f)
    \/ \E f \in FileIds : ParseComplete(f)
    \/ \E f \in FileIds : ParseFailed(f)
    \/ \E text \in SchemaTexts : SetSchemaText(text)
    \/ clearAll
    \/ useHeadersAsSchema
    \/ useHeaders
    \/ Render

Spec == Init /\ [][Next]_vars

-----------------------------------------------------------------------------
(* validateRow and cellHasError on their own: the inputs are drawn at the  *)
(* start, then the functions are applied.                                  *)

S_a == <<"a">>

FieldTypes == {S_string, S_number, S_currency, S_boolean, S_date, S_email}
\* Fields over the column a with every type and flag, and fields named after
\* the inherited property: its value is a function, which required() never
\* finds empty, so that the flag of such a field changes nothing.
FieldDefs ==
    {Field(S_a, ty, r) : ty \in FieldTypes, r \in BOOLEAN}
    \cup {Field(S_valueOf, ty, FALSE) : ty \in FieldTypes}

RawSamples ==
    { <<>>,
      <<" ">>,
      <<"a","b","c">>,
      <<"0">>,
      S_Infinity,
      <<"$","3","0">>,
      S_true,
      <<" ","T","R","U","E"," ">>,
      S_email_ok,
      <<"2","0","2","4","-","0","1","-","0","5">> }

\* a record with the column a, or (a short line) without it
SampleRows == {<<>>} \cup {(S_a :> Str(s)) : s \in RawSamples}

SampleSchemas == UNION {[1..n -> FieldDefs] : n \in 0..MaxFields}

\* The host's Date.parse is drawn only where it can matter: for a value
\* outside the standard date format.
ValidateInit ==
    /\ AppInit
    /\ vRow \in SampleRows
    /\ vSchema \in SampleSchemas
    /\ dateEngine \in Engines
    /\ dateEngine = "lenient" =>
          \E c \in DOMAIN vRow : IsLegacyDateText(StringOf(vRow[c]))
    /\ vErrors = <<>>
    /\ vAgain = <<>>
    /\ vCells = <<>>
    /\ vPc = "input"
    /\ fnIn = <<>>
    /\ fnOut = <<>>
    /\ fnPc = "idle"

\* validateRow(row, schema), called twice, and cellHasError(row, schema, col)
\* for the column
Validate ==
    /\ vPc = "input"
    /\ vErrors' = validateRow(vRow, vSchema, dateEngine)
    /\ vAgain' = validateRow(vRow, vSchema, dateEngine)
    /\ vCells' = [c \in {S_a} |-> cellHasError(vRow, vSchema, c, dateEngine)]
    /\ vPc' = "validated"
    /\ UNCHANGED <<vRow, vSchema, fnIn, fnOut, fnPc, appVars, dateEngine>>

ValidateNext == Validate

SpecValidate == ValidateInit /\ [][ValidateNext]_vars

-----------------------------------------------------------------------------
(* components/SchemaBuilder.jsx *)

TYPE_OPTIONS == {Str(ty) : ty \in FieldTypes}

\* f?.[key] ?? dflt, for an element f of a decoded array
PropOr(f, key, dflt) ==
    LET v == IF IsObject(f) THEN f[key] ELSE Undefined
    IN  IF v.t \in {"null", "undefined"} THEN dflt ELSE v

\* Mutant of normalizeField: required is negated (!f?.required)
normalizeFieldNegated(f) ==
    [name |-> Str(trim(StringOf(PropOr(f, "name", Str(<<>>))))),
     type |-> IF PropOr(f, "type", Undefined) \in TYPE_OPTIONS
              THEN f.type ELSE Str(S_string),
     required |-> Bool(~Truthy(PropOr(f, "required", Undefined)))]

\* The callback of maybeArray.map in normalizeFields
normalizeField(f) ==
    [name |-> Str(trim(StringOf(PropOr(f, "name", Str(<<>>))))),
     type |-> IF PropOr(f, "type", Undefined) \in TYPE_OPTIONS
              THEN f.type ELSE Str(S_string),
     required |-> Bool(Truthy(PropOr(f, "required", Undefined)))]

\* Mutant of normalizeFields: elements that are no objects are dropped
normalizeFieldsOfObjects(maybeArray) ==
    IF ~maybeArray.array THEN <<>>
    ELSE LET objs == SelectSeq(maybeArray.elems, IsObject)
         IN  [i \in 1..Len(objs) |-> normalizeField(objs[i])]

\* normalizeFields(maybeArray), on what JSON.parse made of a text
normalizeFields(maybeArray) ==
    IF ~maybeArray.array THEN <<>>
    ELSE [i \in 1..Len(maybeArray.elems) |-> normalizeField(maybeArray.elems[i])]

\* String(n) of a natural number
RECURSIVE IntText(_)
IntText(n) ==
    IF n < 10 THEN <<DigitSeq[n + 1]>>
    ELSE IntText(n \div 10) \o <<DigitSeq[(n % 10) + 1]>>

NameRequiredMsg(i) == <<"R","o","w"," ">> \o IntText(i + 1) \o <<":"," ","n","a","m","e"," ","i","s"," ","r","e","q","u","i","r","e","d">>
DuplicateMsg(i, name) == <<"R","o","w"," ">> \o IntText(i + 1) \o <<":"," ","d","u","p","l","i","c","a","t","e"," ","n","a","m","e"," ","\"">> \o StringOf(name) \o <<"\"">>
InvalidTypeMsg(i, type) == <<"R","o","w"," ">> \o IntText(i + 1) \o <<":"," ","i","n","v","a","l","i","d"," ","t","y","p","e"," ","\"">> \o StringOf(type) \o <<"\"">>

\* Mutant of selfCheckLoop: the duplicate test without its `if (r.name)`
RECURSIVE selfCheckLoopUnguarded(_, _, _, _)
selfCheckLoopUnguarded(e, seen, list, k) ==
    IF k > Len(list) THEN e
    ELSE LET r == list[k]
             e1 == PushIf(e, ~Truthy(r.name), NameRequiredMsg(k - 1))
             e2 == PushIf(e1, r.name \in seen, DuplicateMsg(k - 1, r.name))
             e3 == PushIf(e2, r.type \notin TYPE_OPTIONS, InvalidTypeMsg(k - 1, r.type))
         IN  selfCheckLoopUnguarded(e3, seen \cup {r.name}, list, k + 1)

\* list.forEach((r, i) => ...) of the errors memo; k is i + 1
RECURSIVE selfCheckLoop(_, _, _, _)
selfCheckLoop(e, seen, list, k) ==
    IF k > Len(list) THEN e
    ELSE LET r == list[k]
             e1 == PushIf(e, ~Truthy(r.name), NameRequiredMsg(k - 1))
             e2 == PushIf(e1, Truthy(r.name) /\ r.name \in seen,
                          DuplicateMsg(k - 1, r.name))
             e3 == PushIf(e2, r.type \notin TYPE_OPTIONS, InvalidTypeMsg(k - 1, r.type))
         IN  selfCheckLoop(e3, IF Truthy(r.name) THEN seen \cup {r.name} ELSE seen,
                           list, k + 1)

\* The errors memo of SchemaBuilder over its rows
schemaErrors(list) == selfCheckLoop(<<>>, {}, list, 1)

\* Array.prototype.join(sep) on an array of strings
RECURSIVE Join(_, _)
Join(strs, sep) ==
    IF strs = <<>> THEN <<>>
    ELSE IF Len(strs) = 1 THEN strs[1]
    ELSE strs[1] \o sep \o Join(Tail(strs), sep)

\* s.replaceAll(c, with), for a one-character pattern c
RECURSIVE ReplaceAll(_, _, _)
ReplaceAll(s, c, with) ==
    IF s = <<>> THEN <<>>
    ELSE (IF Head(s) = c THEN with ELSE <<Head(s)>>) \o ReplaceAll(Tail(s), c, with)

\* Mutant of ErrorsCSV: the messages are quoted without doubling their quotes
ErrorsCSVUndoubled(report) ==
    LET line(r) == IntText(r.index) \o <<",", "\"">>
                   \o ReplaceAll(Join(r.errors, <<" ","|"," ">>), "\n", <<" ">>)
                   \o <<"\"">>
        bad == SelectSeq(report, LAMBDA r : Len(r.errors) > 0)
    IN  Join(<< <<"r","o","w",",","e","r","r","o","r","s">> >>
             \o [k \in 1..Len(bad) |-> line(bad[k])], <<"\n">>)

\* downloadErrorsCSV: the text handed to the Blob, lines.join('\n')
ErrorsCSV(report) ==
    LET line(r) == IntText(r.index) \o <<",", "\"">>
                   \o ReplaceAll(ReplaceAll(Join(r.errors, <<" ","|"," ">>), "\n", <<" ">>),
                                 "\"", <<"\"", "\"">>)
                   \o <<"\"">>
        bad == SelectSeq(report, LAMBDA r : Len(r.errors) > 0)
    IN  Join(<< <<"r","o","w",",","e","r","r","o","r","s">> >>
             \o [k \in 1..Len(bad) |-> line(bad[k])], <<"\n">>)

-----------------------------------------------------------------------------
(* JSON text, character by character: what push() hands to setSchemaText   *)
(* and what the effect reads back.  JSONStringify above is the decoded     *)
(* form of the same text.                                                  *)

\* Mutant of JSONQuote: the characters go out unescaped
JSONQuoteRaw(str) == <<"\"">> \o str \o <<"\"">>

\* JSON.stringify of a string: quoted, with " \ and control characters escaped
JSONQuote(str) ==
    LET esc(c) == CASE c = "\"" -> <<"\\", "\"">>
                    [] c = "\\" -> <<"\\", "\\">>
                    [] c = "\n" -> <<"\\", "n">>
                    [] c = "\t" -> <<"\\", "t">>
                    [] OTHER -> <<c>>
        RECURSIVE body(_)
        body(t) == IF t = <<>> THEN <<>> ELSE esc(Head(t)) \o body(Tail(t))
    IN  <<"\"">> \o body(str) \o <<"\"">>

\* JSON.stringify(schema, null, 2) of an array of field objects whose name
\* and type are strings and whose required is a boolean
JSONText(schema) ==
    LET member(key, text) == <<"\n"," "," "," "," ">> \o JSONQuote(key) \o <<":"," ">> \o text
        object(f) == <<"\n"," "," ","{">>
                     \o member(S_name, JSONQuote(f.name.s)) \o <<",">>
                     \o member(<<"t","y","p","e">>, JSONQuote(f.type.s)) \o <<",">>
                     \o member(<<"r","e","q","u","i","r","e","d">>, f.required.s)
                     \o <<"\n"," "," ","}">>
        RECURSIVE objects(_)
        objects(i) == IF i > Len(schema) THEN <<>>
                      ELSE (IF i > 1 THEN <<",">> ELSE <<>>) \o object(schema[i]) \o objects(i + 1)
    IN  IF Len(schema) = 0 THEN <<"[","]">>
        ELSE <<"[">> \o objects(1) \o <<"\n","]">>

\* JSON.parse(text), as the decoded form: arrays whose elements are
\* objects with string, number, boolean or null members, or such scalars
\* themselves.  Each step returns [ok, v, next]: the value read and the
\* position after it.
JSONParse(text) ==
    LET n == Len(text)
        Fail == [ok |-> FALSE, v |-> <<>>, next |-> 0]
        At(i, c) == i >= 1 /\ i <= n /\ text[i] = c
        Word(i, w) == i + Len(w) - 1 <= n /\ SubSeq(text, i, i + Len(w) - 1) = w
        RECURSIVE ws(_)
        ws(i) == IF i <= n /\ text[i] \in {" ", "\n", "\t", "\r"} THEN ws(i + 1) ELSE i
        RECURSIVE chars(_, _)
        chars(i, acc) ==
            IF i > n \/ text[i] \in {"\n", "\t"} THEN Fail
            ELSE IF text[i] = "\"" THEN [ok |-> TRUE, v |-> acc, next |-> i + 1]
            ELSE IF text[i] = "\\"
            THEN IF i + 1 > n THEN Fail
                 ELSE CASE text[i + 1] \in {"\"", "\\", "/"} ->
                               chars(i + 2, Append(acc, text[i + 1]))
                        [] text[i + 1] = "n" -> chars(i + 2, Append(acc, "\n"))
                        [] text[i + 1] = "t" -> chars(i + 2, Append(acc, "\t"))
                        [] OTHER -> Fail
            ELSE chars(i + 1, Append(acc, text[i]))
        RECURSIVE digits(_)
        digits(i) == IF i <= n /\ text[i] \in Digits THEN digits(i + 1) ELSE i
        scalar(i) ==
            IF At(i, "\"")
            THEN LET r == chars(i + 1, <<>>)
                 IN  IF r.ok THEN [ok |-> TRUE, v |-> Str(r.v), next |-> r.next] ELSE Fail
            ELSE IF Word(i, S_true) THEN [ok |-> TRUE, v |-> Bool(TRUE), next |-> i + 4]
            ELSE IF Word(i, S_false) THEN [ok |-> TRUE, v |-> Bool(FALSE), next |-> i + 5]
            ELSE IF Word(i, S_null) THEN [ok |-> TRUE, v |-> Null, next |-> i + 4]
            ELSE IF digits(i) > i /\ (text[i] # "0" \/ digits(i) = i + 1)
            THEN [ok |-> TRUE, v |-> Num(SubSeq(text, i, digits(i) - 1)), next |-> digits(i)]
            ELSE Fail
        Put(obj, key, v) ==
            CASE key = S_name -> [obj EXCEPT !.name = v]
              [] key = <<"t","y","p","e">> -> [obj EXCEPT !.type = v]
              [] key = <<"r","e","q","u","i","r","e","d">> -> [obj EXCEPT !.required = v]
              [] OTHER -> obj
        \* members(i, obj): i is at a member's key
        RECURSIVE members(_, _)
        members(i, obj) ==
            IF ~At(i, "\"") THEN Fail
            ELSE LET k == chars(i + 1, <<>>)
                     c == IF k.ok THEN ws(k.next) ELSE 0
                     v == IF k.ok /\ At(c, ":") THEN scalar(ws(c + 1)) ELSE Fail
                     e == IF v.ok THEN ws(v.next) ELSE 0
                 IN  IF ~v.ok THEN Fail
                     ELSE IF At(e, "}")
                     THEN [ok |-> TRUE, v |-> Put(obj, k.v, v.v), next |-> e + 1]
                     ELSE IF At(e, ",") THEN members(ws(e + 1), Put(obj, k.v, v.v))
                     ELSE Fail
        object(i) ==
            LET none == [name |-> Undefined, type |-> Undefined, required |-> Undefined]
            IN  IF At(ws(i + 1), "}") THEN [ok |-> TRUE, v |-> none, next |-> ws(i + 1) + 1]
                ELSE members(ws(i + 1), none)
        value(i) == IF At(i, "{") THEN object(i) ELSE scalar(i)
        \* elements(i, acc): i is at an element
        RECURSIVE elements(_, _)
        elements(i, acc) ==
            LET v == value(i)
                e == IF v.ok THEN ws(v.next) ELSE 0
            IN  IF ~v.ok THEN Fail
                ELSE IF At(e, "]")
                THEN [ok |-> TRUE, v |-> Append(acc, v.v), next |-> e + 1]
                ELSE IF At(e, ",") THEN elements(ws(e + 1), Append(acc, v.v))
                ELSE Fail
        array(i) ==
            IF At(ws(i + 1), "]") THEN [ok |-> TRUE, v |-> <<>>, next |-> ws(i + 1) + 1]
            ELSE elements(ws(i + 1), <<>>)
        start == ws(1)
        top == IF At(start, "[") THEN array(start) ELSE value(start)
    IN  IF ~top.ok \/ ws(top.next) # n + 1 THEN MalformedText
        ELSE IF At(start, "[") THEN JSONStringify(top.v)
        ELSE ObjectText

-----------------------------------------------------------------------------
(* normalizeFields, the schema self-check, coerceType and the inference on *)
(* their own: the arguments are drawn at the start, then the function is   *)
(* applied.                                                                *)

\* What JSON.parse makes of a schema text (a value that is no array, or an
\* array of up to MaxElems elements: field objects, objects lacking keys or
\* holding other values, a null, a number), with a record to validate
SchemaInputs ==
    LET elems == { Field(S_a, S_number, TRUE),
                   Field(S_a, S_email, FALSE),
                   Field(<<>>, S_string, FALSE),
                   [name |-> Str(<<" ","a"," ">>), type |-> Str(<<"N","u","m","b","e","r">>),
                    required |-> Str(<<"y","e","s">>)],
                   [name |-> Str(<<"\"","\\">>), type |-> Str(S_date),
                    required |-> Num(<<"0">>)],
                   [name |-> Undefined, type |-> Undefined, required |-> Undefined],
                   Null,
                   Num(<<"5">>) }
        decoded == {ObjectText}
                   \cup {JSONStringify(a) : a \in UNION {[1..n -> elems] : n \in 0..MaxElems}}
    IN  {[x |-> x, row |-> r] : x \in decoded, r \in {<<>>, (S_a :> Str(<<"a","b","c">>))}}

\* Raw values handed to coerceType, with the absent ones
CoerceInputs ==
    {[value |-> v, type |-> ty] :
        v \in {Null, Undefined} \cup {Str(t) : t \in {<<>>, <<" ">>, <<"a","b","c">>,
                                                      <<"1","2">>, <<"$","3","0">>, S_true}},
        ty \in TYPE_OPTIONS \cup {Str(<<"o","t","h","e","r">>)}}

S_b == <<"b">>

\* Column names and two datasets with the same first record (or both
\* empty): records of the columns a and b, and a short one without b
InferInputs ==
    LET samples == { <<>>, <<"1">>, <<"3","0">>, <<"$","3","0">>, S_true, <<"a","b","c">>,
                     <<"2","0","2","4","-","0","1","-","0","5">> }
        firsts == {(S_a :> Str(va)) @@ (S_b :> Str(vb)) :
                      va \in samples, vb \in {<<>>, <<"0">>, S_false}}
                  \cup {(S_a :> Str(va)) : va \in {<<"1">>, <<"a","b","c">>}}
        tails == { <<>>,
                   << (S_a :> Str(<<"a","b","c">>)) @@ (S_b :> Str(<<"7">>)) >>,
                   << (S_a :> Str(<<>>)) @@ (S_b :> Str(S_true)) >> }
    IN  {[headers |-> hs, rows |-> <<>>, other |-> <<>>] : hs \in {<<>>, <<S_a, S_b>>}}
        \cup {[headers |-> hs, rows |-> <<r>> \o t1, other |-> <<r>> \o t2] :
                hs \in {<<>>, <<S_a>>, <<S_a, S_b>>, <<S_b, S_a>>},
                r \in firsts, t1 \in tails, t2 \in tails}

\* Validation reports of up to MaxElems rows, with messages of validateRow
\* that hold quotes and a line break (a field name of two lines)
ExportInputs ==
    LET lists == { <<>>,
                   <<RequiredMsg(Str(S_a))>>,
                   <<MissingMsg(Str(<<"x","\n","y">>)), NumberMsg(Str(S_a))>> }
    IN  {[report |-> [k \in 1..n |-> [index |-> k, errors |-> es[k]]]] :
            n \in 0..MaxElems, es \in [1..MaxElems -> lists]}

PureInit ==
    /\ AppInit
    /\ vRow = <<>> /\ vSchema = <<>> /\ vErrors = <<>> /\ vAgain = <<>>
    /\ vCells = <<>> /\ vPc = "idle"
    /\ dateEngine \in Engines
    /\ fnOut = <<>>
    /\ \/ fnPc = "schema" /\ fnIn \in SchemaInputs /\ dateEngine = "strict"
       \/ fnPc = "coerce" /\ fnIn \in CoerceInputs /\ dateEngine = "strict"
       \/ fnPc = "infer" /\ fnIn \in InferInputs
       \/ fnPc = "export" /\ fnIn \in ExportInputs /\ dateEngine = "strict"

\* normalizeFields(x), normalizeFields of its result, the result written as
\* JSON text and read back (push, then the effect), the self-check of the
\* result, and validateRow(row, .) under the schema currentSchema() returns
\* for x and under x normalized
Normalize ==
    /\ fnPc = "schema"
    /\ LET norm == normalizeFields(fnIn.x)
       IN  fnOut' = [norm |-> norm,
                     again |-> normalizeFields(JSONStringify(norm)),
                     round |-> normalizeFields(JSONParse(JSONText(norm))),
                     errors |-> schemaErrors(norm),
                     threw |-> validateRowThrows(currentSchema(fnIn.x)),
                     raw |-> IF validateRowThrows(currentSchema(fnIn.x)) THEN <<>>
                             ELSE validateRow(fnIn.row, currentSchema(fnIn.x), dateEngine),
                     normalized |-> validateRow(fnIn.row, norm, dateEngine)]
    /\ fnPc' = "done"
    /\ UNCHANGED <<fnIn, vRow, vSchema, vErrors, vAgain, vCells, vPc, appVars, dateEngine>>

\* coerceType(value, type)
Coerce ==
    /\ fnPc = "coerce"
    /\ fnOut' = [val |-> coerceType(fnIn.value, fnIn.type)]
    /\ fnPc' = "done"
    /\ UNCHANGED <<fnIn, vRow, vSchema, vErrors, vAgain, vCells, vPc, appVars, dateEngine>>

\* inferSchemaFromData(rows, headers) on each of the two datasets, and
\* validateRow of the first record under the schema inferred from it
Infer ==
    /\ fnPc = "infer"
    /\ LET schema == inferSchemaFromData(fnIn.rows, fnIn.headers, dateEngine)
       IN  fnOut' = [schema |-> schema,
                     other |-> inferSchemaFromData(fnIn.other, fnIn.headers, dateEngine),
                     errors |-> IF Len(fnIn.rows) = 0 THEN <<>>
                                ELSE validateRow(fnIn.rows[1], schema, dateEngine)]
    /\ fnPc' = "done"
    /\ UNCHANGED <<fnIn, vRow, vSchema, vErrors, vAgain, vCells, vPc, appVars, dateEngine>>

\* downloadErrorsCSV on the report: nothing is saved for an empty report
Export ==
    /\ fnPc = "export"
    /\ fnOut' = [csv |-> IF Len(fnIn.report) = 0 THEN <<>> ELSE ErrorsCSV(fnIn.report)]
    /\ fnPc' = "done"
    /\ UNCHANGED <<fnIn, vRow, vSchema, vErrors, vAgain, vCells, vPc, appVars, dateEngine>>

PureNext ==
    \/ Normalize
    \/ Coerce
    \/ Infer
    \/ Export

SpecPure == PureInit /\ [][PureNext]_vars

-----------------------------------------------------------------------------
(* App.jsx: the column controls and the downloads.  saveAs hands a file    *)
(* to the browser; until the browser has written it no other handler runs. *)
(* A JSON text is held as the objects it encodes, each the sequence of its *)
(* members <<key, value>> in key order.                                    *)

\* The orderedHeaders memo
orderedHeaders(hs, order) ==
    SelectSeq(order, LAMBDA h : h \in Range(hs))
    \o SelectSeq(hs, LAMBDA h : h \notin Range(order))

\* list.indexOf(x) + 1: 0 when x is not in the list
IndexOf(list, x) ==
    IF x \in Range(list) THEN CHOOSE i \in 1..Len(list) : list[i] = x /\ \A j \in 1..(i - 1) : list[j] # x
    ELSE 0

\* Mutant of MoveTo: the two columns change places
SwapAt(list, from, to) ==
    [i \in 1..Len(list) |-> IF i = from THEN list[to] ELSE IF i = to THEN list[from] ELSE list[i]]

\* onHeaderDrop: next.splice(from, 1) and next.splice(to, 0, moved), with
\* from and to counted from 1
MoveTo(list, from, to) ==
    LET without == SubSeq(list, 1, from - 1) \o SubSeq(list, from + 1, Len(list))
    IN  SubSeq(without, 1, to - 1) \o <<list[from]>> \o SubSeq(without, to, Len(without))

\* The object built by `o[k] = row[k]` over keys: a key assigned twice
\* keeps its first place
ObjectOf(row, keys) ==
    LET first == {i \in 1..Len(keys) : \A j \in 1..(i - 1) : keys[j] # keys[i]}
        nth(n) == CHOOSE i \in first : Cardinality({j \in first : j < i}) = n - 1
    IN  [n \in 1..Cardinality(first) |-> <<keys[nth(n)], Get(row, keys[nth(n)])>>]

pickColumns(data, keep, ordered) ==
    LET cols == IF Len(keep) > 0 THEN keep ELSE ordered
    IN  [k \in 1..Len(data) |-> ObjectOf(data[k], cols)]

\* JSON.stringify of an array of objects: a member whose value is
\* undefined or a function is left out
JSONStringifyObjects(objs) ==
    [k \in 1..Len(objs) |->
        SelectSeq(objs[k], LAMBDA m : m[2].t \notin {"undefined", "function"})]

\* A record decoded by Papa.parse: its own keys, in the order of the fields
PapaObject(row, fields) ==
    ObjectOf(row, SelectSeq(fields, LAMBDA h : HasOwn(row, h)))

\* A column checkbox's onChange; e.target.checked is the opposite of the
\* box's state
toggleColumn(h) ==
    /\ ~renderPending
    /\ h \in Range(headers)
    /\ selectedCols' = IF h \notin Range(selectedCols)
                       THEN Append(selectedCols, h)
                       ELSE SelectSeq(selectedCols, LAMBDA x : x # h)
    /\ renderPending' = TRUE
    /\ UNCHANGED <<file, schemaText, rows, errors, headers, headerOrder, dragCol, saved,
                   pending, renderVars, fnVars, dateEngine>>

\* The `Select all` box's onChange; the box is rendered checked when
\* selectedCols.length === headers.length
selectAll ==
    /\ ~renderPending
    /\ Len(headers) > 0
    /\ selectedCols' = IF Len(selectedCols) # Len(headers) THEN headers ELSE <<>>
    /\ renderPending' = TRUE
    /\ UNCHANGED <<file, schemaText, rows, errors, headers, headerOrder, dragCol, saved,
                   pending, renderVars, fnVars, dateEngine>>

onHeaderDragStart(h) ==
    /\ ~renderPending
    /\ h \in Range(orderedHeaders(headers, headerOrder))
    /\ dragCol' = Str(h)
    /\ renderPending' = TRUE
    /\ UNCHANGED <<file, schemaText, rows, errors, headers, selectedCols, headerOrder,
                   saved, pending, renderVars, fnVars, dateEngine>>

onHeaderDrop(targetH) ==
    /\ ~renderPending
    /\ targetH \in Range(orderedHeaders(headers, headerOrder))
    /\ LET ordered == orderedHeaders(headers, headerOrder)
           from == IF dragCol = Null THEN 0 ELSE IndexOf(ordered, dragCol.s)
           to == IndexOf(ordered, targetH)
           next == MoveTo(ordered, from, to)
       IN  IF dragCol = Null \/ dragCol = Str(<<>>) \/ dragCol = Str(targetH) \/ from = 0 \/ to = 0
           THEN UNCHANGED <<headerOrder, selectedCols>>
           ELSE /\ headerOrder' = next
                /\ selectedCols' =
                     LET sel == SelectSeq(selectedCols, LAMBDA h : h \in Range(next))
                     IN  SelectSeq(next, LAMBDA h : h \in Range(sel))
    /\ dragCol' = Null
    /\ renderPending' = TRUE
    /\ UNCHANGED <<file, schemaText, rows, errors, headers, saved, pending, renderVars,
                   fnVars, dateEngine>>

\* The `Reset order` button
resetOrder ==
    /\ ~renderPending
    /\ headerOrder' = headers
    /\ renderPending' = TRUE
    /\ UNCHANGED <<file, schemaText, rows, errors, headers, selectedCols, dragCol, saved,
                   pending, renderVars, fnVars, dateEngine>>

\* The file names given to saveAs
SaveNames ==
    [json |-> <<"c","o","n","v","e","r","t","e","d",".","j","s","o","n">>,
     selected |-> <<"c","o","n","v","e","r","t","e","d","_","s","e","l","e","c","t","e","d",".","j","s","o","n">>,
     errors |-> <<"v","a","l","i","d","a","t","i","o","n","_","e","r","r","o","r","s",".","c","s","v">>]

\* downloadJSON, reached by Ctrl/Cmd+S ("key"), by the header's `Export
\* JSON` button ("export") or by the report's `Download JSON` button
\* ("download")
downloadJSON(via) ==
    /\ ~renderPending
    /\ \/ via = "key"
       \/ via = "export" /\ Len(rows) > 0
       \/ via = "download" /\ ~hasErrors /\ Len(rows) > 0
    /\ saved' = [name |-> SaveNames.json,
                 body |-> JSONStringifyObjects([k \in 1..Len(rows) |-> PapaObject(rows[k], headers)])]
    /\ UNCHANGED <<file, schemaText, rows, errors, headers, selectedCols, headerOrder,
                   dragCol, pending, renderPending, renderVars, fnVars, dateEngine>>

\* The `Download JSON (selected)` button
downloadJSONSelected ==
    /\ ~renderPending
    /\ ~hasErrors /\ Len(rows) > 0
    /\ saved' = [name |-> SaveNames.selected,
                 body |-> JSONStringifyObjects(
                              pickColumns(rows, selectedCols, orderedHeaders(headers, headerOrder)))]
    /\ UNCHANGED <<file, schemaText, rows, errors, headers, selectedCols, headerOrder,
                   dragCol, pending, renderPending, renderVars, fnVars, dateEngine>>

\* The `Download Errors (CSV)` button
downloadErrorsCSV ==
    /\ ~renderPending
    /\ hasErrors /\ Len(rows) > 0
    /\ Len(validationReport) > 0
    /\ saved' = [name |-> SaveNames.errors, body |-> ErrorsCSV(validationReport)]
    /\ UNCHANGED <<file, schemaText, rows, errors, headers, selectedCols, headerOrder,
                   dragCol, pending, renderPending, renderVars, fnVars, dateEngine>>

\* The browser writes the file it was handed
SaveWritten ==
    /\ saved # NoSave
    /\ saved' = NoSave
    /\ UNCHANGED <<file, schemaText, rows, errors, headers, selectedCols, headerOrder,
                   dragCol, pending, renderPending, renderVars, fnVars, dateEngine>>

\* The column controls and the downloads with the default schema, on
\* three of the files, one parse at a time
ColumnsInit == AppInit /\ FnIdle /\ dateEngine = "strict"

ColumnsNext ==
    \/ \E f \in {"clean", "dirty", "short"} : saved = NoSave /\ InFlight = 0 /\ HandleFileSelected(f)
    \/ \E f \in {"clean", "dirty", "short"} : saved = NoSave /\ SampleText(f)
    \/ \E f \in {"clean", "dirty", "short"} : saved = NoSave /\ ParseComplete(f)
    \/ saved = NoSave /\ clearAll
    \/ saved = NoSave /\ Render
    \/ \E h \in Range(headers) : saved = NoSave /\ toggleColumn(h)
    \/ saved = NoSave /\ selectAll
    \/ \E h \in Range(headers) : saved = NoSave /\ onHeaderDragStart(h)
    \/ \E h \in Range(headers) : saved = NoSave /\ onHeaderDrop(h)
    \/ saved = NoSave /\ resetOrder
    \/ \E via \in {"key", "export", "download"} : saved = NoSave /\ downloadJSON(via)
    \/ saved = NoSave /\ downloadJSONSelected
    \/ saved = NoSave /\ downloadErrorsCSV
    \/ SaveWritten

SpecColumns == ColumnsInit /\ [][ColumnsNext]_vars

-----------------------------------------------------------------------------
(* Vocabulary of the claims *)

Count(seq, x) == Cardinality({i \in 1..Len(seq) : seq[i] = x})

FormatMsgs(name) ==
    {NumberMsg(name), CurrencyMsg(name), EmailMsg(name), BooleanMsg(name), DateMsg(name)}

\* every message validateRow can emit about a field of this name
MsgsAbout(name) == {MissingMsg(name), RequiredMsg(name)} \cup FormatMsgs(name)

\* the format message of the field's declared type, if its type has one
FormatMsgOf(field) ==
    CASE field.type = Str(S_number) -> {NumberMsg(field.name)}
      [] field.type = Str(S_currency) -> {CurrencyMsg(field.name)}
      [] field.type = Str(S_email) -> {EmailMsg(field.name)}
      [] field.type = Str(S_boolean) -> {BooleanMsg(field.name)}
      [] field.type = Str(S_date) -> {DateMsg(field.name)}
      [] OTHER -> {}

\* the messages one field can be the origin of
MsgsOfField(field) ==
    {MissingMsg(field.name), RequiredMsg(field.name)} \cup FormatMsgOf(field)

FieldsNamed(schema, name) == {i \in 1..Len(schema) : schema[i].name = name}
RequiredFieldsNamed(schema, name) ==
    {i \in FieldsNamed(schema, name) : Truthy(schema[i].required)}
NamesOf(schema) == {schema[i].name : i \in 1..Len(schema)}

\* the column is a key of the row and its raw value is empty or white space
BlankCell(row, name) == HasOwn(row, StringOf(name)) /\ trim(StringOf(row[StringOf(name)])) = <<>>
EmptyCell(row, name) == HasOwn(row, StringOf(name)) /\ row[StringOf(name)] = Str(<<>>)

Validated == vPc = "validated"

-----------------------------------------------------------------------------
(* C1..C6: validateRow and cellHasError (SpecValidate) *)

\* C1: for every required field whose column is present with an empty or
\* white-space-only raw value, validateRow emits exactly the message
\* `Field "<name>" is required` for that field and no format message: per
\* name, one required message for each required field of that name, and no
\* format message of that name.
C1_RequiredOnBlank ==
    Validated =>
        \A n \in NamesOf(vSchema) :
            BlankCell(vRow, n) =>
                /\ Count(vErrors, RequiredMsg(n))
                     = Cardinality(RequiredFieldsNamed(vSchema, n))
                /\ \A m \in FormatMsgs(n) : Count(vErrors, m) = 0

\* C2: for every non-required field whose column is present with an empty
\* raw value, validateRow emits no message for that field, whatever its
\* type: the only messages about that name are required messages, at most
\* one for each required field of the same name.
C2_OptionalEmptyIsSilent ==
    Validated =>
        \A n \in NamesOf(vSchema) :
            EmptyCell(vRow, n) =>
                /\ \A m \in MsgsAbout(n) \ {RequiredMsg(n)} : Count(vErrors, m) = 0
                /\ Count(vErrors, RequiredMsg(n))
                     <= Cardinality(RequiredFieldsNamed(vSchema, n))

\* C2 witness: a validated schema with a non-required e-mail field over an
\* empty cell, and no message
C2_Witness ==
    /\ Validated
    /\ vRow = (S_a :> Str(<<>>))
    /\ vSchema = <<Field(S_a, S_email, FALSE)>>
    /\ vErrors = <<>>

\* C3: for every schema field whose name is not a key of the row,
\* validateRow emits exactly one message for that field, `Missing column:
\* <name>`, and no required or format message: per name, one missing-column
\* message for each field of that name and no other message of that name.
C3_MissingColumnOnly ==
    Validated =>
        \A n \in NamesOf(vSchema) :
            ~HasOwn(vRow, StringOf(n)) =>
                /\ Count(vErrors, MissingMsg(n)) = Cardinality(FieldsNamed(vSchema, n))
                /\ \A m \in MsgsAbout(n) \ {MissingMsg(n)} : Count(vErrors, m) = 0

\* C4: the messages of validateRow are in schema field order (each message
\* can be given an originating field so that the origins never decrease
\* along the list), and a second call on the same row and schema returns
\* the same list.
C4_SchemaOrder ==
    Validated =>
        /\ \E origin \in [1..Len(vErrors) -> 1..Len(vSchema)] :
              /\ \A p \in 1..Len(vErrors) : vErrors[p] \in MsgsOfField(vSchema[origin[p]])
              /\ \A p, q \in 1..Len(vErrors) : p < q => origin[p] <= origin[q]
        /\ vAgain = vErrors

\* C4 witness: two fields of different types on a value both reject, the
\* number message before the e-mail message
C4_Witness ==
    /\ Validated
    /\ vSchema = <<Field(S_a, S_number, FALSE), Field(S_a, S_email, FALSE)>>
    /\ vErrors = <<NumberMsg(Str(S_a)), EmailMsg(Str(S_a))>>

\* C6: for a column present in the record and the one non-required schema
\* field of that name, cellHasError flags the cell exactly when validateRow
\* emits the format message of that field.
C6_CellMatchesFormatRule ==
    Validated =>
        \A c \in DOMAIN vCells :
            \A i \in FieldsNamed(vSchema, Str(c)) :
                ( /\ FieldsNamed(vSchema, Str(c)) = {i}
                  /\ ~Truthy(vSchema[i].required)
                  /\ HasOwn(vRow, c) )
                => ( vCells[c] <=> \E m \in FormatMsgOf(vSchema[i]) : Count(vErrors, m) > 0 )

-----------------------------------------------------------------------------
(* C5, C7..C10: the App (Spec) *)

\* C5: columnErrorCount never counts a required-only or missing-column
\* failure: a record whose value for the column is empty, or which lacks the
\* column, adds nothing to the column's count, so the count is the number
\* of flagged records among those that hold a non-empty value for it.
C5_CountsOnlyPresentValues ==
    ~renderPending =>
        \A h \in DOMAIN columnErrorCount :
            columnErrorCount[h]
              = Cardinality({k \in 1..Len(rows) :
                               /\ HasOwn(rows[k], h)
                               /\ rows[k][h] # Str(<<>>)
                               /\ cellHasError(rows[k], parsedSchema(schemaText), h,
                                               dateEngine)})

\* C7: once rendered, the report has one entry per row, in order; the k-th
\* entry has index k and the errors of validateRow on the k-th row under
\* the schema currentSchema() returns.
C7_ReportPerRow ==
    ~renderPending =>
        /\ Len(validationReport) = Len(rows)
        /\ \A k \in 1..Len(rows) :
              /\ validationReport[k].index = k
              /\ validationReport[k].errors
                   = validateRow(rows[k], currentSchema(schemaText), dateEngine)

\* C7 witness: three rows loaded and rendered, the third with errors
C7_Witness ==
    /\ ~renderPending
    /\ Len(rows) = 3
    /\ Len(validationReport) = 3
    /\ validationReport[3].index = 3
    /\ Len(validationReport[3].errors) > 0

\* C8: hasErrors is true exactly when some report entry has an error, the
\* error row index set is exactly the indices of the entries with an
\* error, and with no rows the report is empty, hasErrors false and the
\* index set empty.
C8_Aggregates ==
    /\ hasErrors <=> \E k \in 1..Len(validationReport) : validationReport[k].errors # <<>>
    /\ \A k \in 1..Len(validationReport) :
          validationReport[k].index \in errorIndexSet <=> validationReport[k].errors # <<>>
    /\ \A n \in errorIndexSet :
          \E k \in 1..Len(validationReport) : validationReport[k].index = n
    /\ (~renderPending /\ Len(rows) = 0) =>
          validationReport = <<>> /\ ~hasErrors /\ errorIndexSet = {}

\* C8 witness: rows 2 and 3 of three have errors
C8_Witness ==
    /\ ~renderPending
    /\ Len(rows) = 3
    /\ hasErrors
    /\ errorIndexSet = {2, 3}

\* C9: re-validation is side-effect-free: a render that recomputes the
\* report from the rows and schema text the cached report was computed
\* from yields the same report and leaves rows, headers, schema text and
\* the message list unchanged.
C9_RevalidationIsPure ==
    [][ (renderPending /\ MemoStale /\ rows = memoRows /\ schemaText = memoSchemaText)
        => /\ validationReport' = validationReport
           /\ rows' = rows
           /\ headers' = headers
           /\ schemaText' = schemaText
           /\ errors' = errors ]_vars

\* the message list holds the warnings the decoder delivered for some file
ShowsWarnings ==
    /\ errors # <<>>
    /\ \E f \in FileIds : errors = ParseErrors(FileOf(f).errors)

\* C10: decode warnings are passed through untouched: while the list holds
\* a parse's warnings, a step that neither selects a file, clears the data
\* nor delivers a parse result (a schema edit, a re-validation) keeps it.
C10_WarningsKept ==
    [][ (ShowsWarnings /\ file' = file /\ rows' = rows /\ pending' = pending)
        => errors' = errors ]_vars

-----------------------------------------------------------------------------
(* C11..C16: schema normalization and self-check (SpecPure) *)

Normalized == fnPc = "done" /\ "norm" \in DOMAIN fnOut

\* C11: for every row and every schema that is a decoded JSON array,
\* whatever its elements, validateRow returns a list of messages instead of
\* throwing.
C11_NeverThrows ==
    Normalized => ~fnOut.threw

\* C12: for every schema text that parses to an array of objects, the
\* messages validateRow gives under the schema as decoded are those it gives
\* under normalizeFields of that schema.
C12_ValidatesNormalized ==
    (Normalized /\ fnIn.x.array /\ \A i \in 1..Len(fnIn.x.elems) : IsObject(fnIn.x.elems[i]))
        => fnOut.raw = fnOut.normalized

\* C13: normalizeFields(normalizeFields(x)) = normalizeFields(x) for every
\* decoded JSON value x.
C13_Idempotent ==
    Normalized => fnOut.again = fnOut.norm

\* C13 witness: an array of a null and an object that normalization changes
\* (name trimmed, type defaulted, required made boolean)
C13_Witness ==
    /\ Normalized
    /\ fnIn.x.array
    /\ fnIn.x.elems = << Null,
                         [name |-> Str(<<" ","a"," ">>),
                          type |-> Str(<<"N","u","m","b","e","r">>),
                          required |-> Str(<<"y","e","s">>)] >>
    /\ fnOut.norm = <<Field(<<>>, S_string, FALSE), Field(S_a, S_string, TRUE)>>
    /\ fnOut.again = fnOut.norm

\* C14: for every already-normalized schema s, writing it as JSON text and
\* then parsing and normalizing that text yields s again: same fields, same
\* order, same name, type and required.
C14_RoundTrip ==
    Normalized => fnOut.round = fnOut.norm

\* C14 witness: a normalized schema of two fields, one with a name that
\* needs escaping in JSON text, read back as written
C14_Witness ==
    /\ Normalized
    /\ fnOut.norm = <<Field(<<"\"","\\">>, S_date, FALSE), Field(S_a, S_number, TRUE)>>
    /\ fnOut.round = fnOut.norm
    /\ JSONParse(JSONText(fnOut.norm)) = JSONStringify(fnOut.norm)

\* C15: normalizeFields returns the empty schema for a non-array; for an
\* array it returns one field per element, in order, each with a trimmed
\* string name (empty when the element has none), a type among the six
\* (string when the element's type is not one of them) and a boolean
\* required equal to the truthiness of the element's.
C15_NormalizeShape ==
    Normalized =>
        IF ~fnIn.x.array THEN fnOut.norm = <<>>
        ELSE /\ Len(fnOut.norm) = Len(fnIn.x.elems)
             /\ \A i \in 1..Len(fnIn.x.elems) :
                  LET e == fnIn.x.elems[i]
                      n == fnOut.norm[i]
                  IN  /\ n.name.t = "string"
                      /\ trim(n.name.s) = n.name.s
                      /\ IF IsObject(e) /\ e.name.t \notin {"null", "undefined"}
                         THEN n.name.s = trim(StringOf(e.name))
                         ELSE n.name.s = <<>>
                      /\ n.type \in TYPE_OPTIONS
                      /\ IF IsObject(e) /\ e.type \in TYPE_OPTIONS
                         THEN n.type = e.type
                         ELSE n.type = Str(S_string)
                      /\ n.required \in {Bool(TRUE), Bool(FALSE)}
                      /\ n.required = Bool(TRUE) <=> (IsObject(e) /\ Truthy(e.required))

\* C15 witness: three elements, two of the same name and one that is no
\* object, all kept
C15_Witness ==
    /\ Normalized
    /\ fnIn.x.array
    /\ fnIn.x.elems = <<Field(S_a, S_number, TRUE), Num(<<"5">>), Field(S_a, S_email, FALSE)>>
    /\ fnOut.norm = <<Field(S_a, S_number, TRUE), Field(<<>>, S_string, FALSE),
                      Field(S_a, S_email, FALSE)>>

\* C16: the self-check reports one `name is required` for each field with
\* an empty name; for a non-empty name a duplicate error on every
\* occurrence after the first and none on the first; and no duplicate
\* error for an empty name.
C16_SelfCheck ==
    Normalized =>
        \A i \in 1..Len(fnOut.norm) :
            LET name == fnOut.norm[i].name
                earlier == \E j \in 1..(i - 1) : fnOut.norm[j].name = name
            IN  /\ Count(fnOut.errors, NameRequiredMsg(i - 1))
                     = (IF name = Str(<<>>) THEN 1 ELSE 0)
                /\ Count(fnOut.errors, DuplicateMsg(i - 1, name))
                     = (IF name # Str(<<>>) /\ earlier THEN 1 ELSE 0)

\* C16 witness: an empty name twice and a name twice
C16_Witness ==
    /\ Normalized
    /\ Len(fnOut.norm) = 3
    /\ fnOut.norm[1].name = Str(<<>>)
    /\ fnOut.norm[2].name = Str(S_a)
    /\ fnOut.norm[3].name = Str(S_a)
    /\ fnOut.errors = <<NameRequiredMsg(0), DuplicateMsg(2, Str(S_a))>>

-----------------------------------------------------------------------------
(* C17, C19, C20: coerceType and the inference (SpecPure); C18: the number *)
(* and currency rules of validateRow (SpecValidate)                        *)

Coerced == fnPc = "done" /\ "val" \in DOMAIN fnOut
Inferred == fnPc = "done" /\ "schema" \in DOMAIN fnOut

\* C17: coerceType maps an absent raw value to the documented empty value:
\* under number and currency each of the empty string, null and undefined
\* gives null; under email and string each of null and undefined gives the
\* empty string.
C17_AbsentCoercesToEmpty ==
    Coerced =>
        /\ ( /\ fnIn.type \in {Str(S_number), Str(S_currency)}
             /\ fnIn.value \in {Str(<<>>), Null, Undefined} )
           => fnOut.val = Null
        /\ ( /\ fnIn.type \in {Str(S_email), Str(S_string)}
             /\ fnIn.value \in {Null, Undefined} )
           => fnOut.val = Str(<<>>)

\* the raw value parses to a finite number: Number(text), after the
\* currency symbols are stripped when the field is a currency
ParsesFinite(raw, stripped) ==
    IsFiniteNumber(StringToNumber(IF stripped THEN RemoveChars(StringOf(raw), CurrencyChars)
                                  ELSE StringOf(raw)))

\* C18: for a field of type number, and of type currency after symbol
\* stripping, over a column the record holds with a non-empty raw value,
\* validateRow emits the field's format message exactly when the value
\* does not parse to a finite number (an infinite value included): per
\* name, one message for each such field, none when it parses.
C18_FiniteNumbersOnly ==
    Validated =>
        \A n \in NamesOf(vSchema) :
            (HasOwn(vRow, StringOf(n)) /\ trim(StringOf(vRow[StringOf(n)])) # <<>>)
            => LET raw == vRow[StringOf(n)]
                   ofType(ty) == {i \in FieldsNamed(vSchema, n) : vSchema[i].type = Str(ty)}
               IN  /\ Count(vErrors, NumberMsg(n))
                        = (IF ParsesFinite(raw, FALSE) THEN 0
                           ELSE Cardinality(ofType(S_number)))
                   /\ Count(vErrors, CurrencyMsg(n))
                        = (IF ParsesFinite(raw, TRUE) THEN 0
                           ELSE Cardinality(ofType(S_currency)))

\* the classification the cascade gives: empty, then numeric after
\* stripping, then a boolean token, then date-parseable, else string
Classified(sample, engine) ==
    LET text == StringOf(sample)
    IN  CASE sample.t \in {"null", "undefined"} \/ text = <<>> -> S_string
          [] OTHER ->
             IF ~IsNaNNumber(StringToNumber(RemoveChars(text, CurrencyChars))) THEN S_number
             ELSE IF trim(toLowerCase(text)) \in BooleanTokens THEN S_boolean
             ELSE IF DateParses(text, engine) THEN S_date
             ELSE S_string

\* C19: the inferred schema has one field per column, in column order, with
\* required false and the type of the first matching check, in the order
\* empty, numeric, boolean token, date, string, on the first record's
\* value; a digit-only value is a number whatever else it parses as.
C19_InferenceOrder ==
    (Inferred /\ Len(fnIn.rows) > 0) =>
        /\ Len(fnOut.schema) = Len(fnIn.headers)
        /\ \A i \in 1..Len(fnIn.headers) :
              LET sample == Get(fnIn.rows[1], fnIn.headers[i])
                  f == fnOut.schema[i]
              IN  /\ f.name = Str(fnIn.headers[i])
                  /\ f.required = Bool(FALSE)
                  /\ f.type = Str(Classified(sample, dateEngine))
                  /\ (sample.t = "string" /\ sample.s # <<>> /\ AllDigits(sample.s))
                     => f.type = Str(S_number)

\* C19 witness: under a host whose Date.parse accepts digit-only text, the
\* columns b and a of a record with "0" and "true"
C19_Witness ==
    /\ Inferred
    /\ dateEngine = "lenient"
    /\ fnIn.headers = <<S_b, S_a>>
    /\ Len(fnIn.rows) > 0
    /\ fnIn.rows[1] = (S_a :> Str(S_true)) @@ (S_b :> Str(<<"0">>))
    /\ fnOut.schema = <<Field(S_b, S_number, FALSE), Field(S_a, S_boolean, FALSE)>>

\* C20: two datasets with the same columns and the same first record give
\* the same inferred schema, whatever their other records.
C20_FirstRecordOnly ==
    Inferred => fnOut.schema = fnOut.other

\* C20 witness: the two datasets differ after the first record
C20_Witness ==
    /\ Inferred
    /\ Len(fnIn.headers) = 2
    /\ Len(fnIn.rows) = 2
    /\ Len(fnIn.other) = 2
    /\ fnIn.rows # fnIn.other
    /\ fnOut.schema = fnOut.other
    /\ fnOut.schema # <<>>

-----------------------------------------------------------------------------
(* C24: inference against validation (SpecPure); C25..C27: the App under   *)
(* file loads and schema edits (Spec); C28: validateRow (SpecValidate)     *)

\* C24: the record a schema was inferred from is valid under that schema:
\* validateRow(first record, inferSchemaFromData(rows, headers)) returns no
\* errors.
C24_SampleIsValid ==
    (Inferred /\ Len(fnIn.rows) > 0) => fnOut.errors = <<>>

\* C25: non-empty rows and headers were decoded from the currently
\* selected file: a parse completion of a file that is no longer the
\* selected one never populates them.
C25_RowsOfSelectedFile ==
    Len(rows) > 0 =>
        /\ file # NoFile
        /\ rows = FileOf(file).data
        /\ headers = FileOf(file).fields

\* C26: once rendered, the row-level report and the cell-level results are
\* computed from the same schema, also when the schema text is not valid
\* JSON or not an array: the report is that of validateRow under the schema
\* the cell check sees, and a column has a non-zero error count only if
\* some row has errors.
C26_OneSchema ==
    (~renderPending /\ Len(rows) > 0) =>
        /\ Len(validationReport) = Len(rows)
        /\ \A k \in 1..Len(rows) :
              validationReport[k].errors
                = validateRow(rows[k], parsedSchema(schemaText), dateEngine)
        /\ (\E h \in DOMAIN columnErrorCount : columnErrorCount[h] > 0) => hasErrors

\* the message list holds a `Schema error: ...` message
HasSchemaError ==
    \E i \in 1..Len(errors) :
        /\ Len(errors[i]) >= 14
        /\ SubSeq(errors[i], 1, 14) = <<"S","c","h","e","m","a"," ","e","r","r","o","r",":"," ">>

\* C27: once rendered, the message list contains a `Schema error: ...`
\* message if and only if the current schema text fails to parse as a JSON
\* array and rows are loaded; so it is gone once the text is corrected.
C27_SchemaErrorTracksText ==
    ~renderPending =>
        (HasSchemaError <=> (SchemaThrown(schemaText) # <<>> /\ Len(rows) > 0))

\* C28: validateRow emits at most one message per schema field: per name,
\* no more messages about it than fields of that name, and in all no more
\* messages than fields.
C28_AtMostOnePerField ==
    Validated =>
        /\ Len(vErrors) <= Len(vSchema)
        /\ \A n \in NamesOf(vSchema) :
              Cardinality({p \in 1..Len(vErrors) : vErrors[p] \in MsgsAbout(n)})
                <= Cardinality(FieldsNamed(vSchema, n))

\* C28 witness: a required number field and a required e-mail field over a
\* value both reject: one format message each and no required message
C28_Witness ==
    /\ Validated
    /\ vRow = (S_a :> Str(<<"a","b","c">>))
    /\ vSchema = <<Field(S_a, S_number, TRUE), Field(S_a, S_email, TRUE)>>
    /\ vErrors = <<NumberMsg(Str(S_a)), EmailMsg(Str(S_a))>>

-----------------------------------------------------------------------------
(* C21: the error report export (SpecPure) *)

Exported == fnPc = "done" /\ "csv" \in DOMAIN fnOut

\* the text cut at its line breaks
SplitLines(text) ==
    LET breaks == {i \in 1..Len(text) : text[i] = "\n"}
        nth(k) == IF k = 0 THEN 0
                  ELSE IF k > Cardinality(breaks) THEN Len(text) + 1
                  ELSE CHOOSE i \in breaks : Cardinality({j \in breaks : j < i}) = k - 1
    IN  [k \in 1..(Cardinality(breaks) + 1) |-> SubSeq(text, nth(k - 1) + 1, nth(k) - 1)]

\* a quoted CSV field: it opens and closes with a quote and every run of
\* quotes between the two has an even length
WellQuoted(field) ==
    /\ Len(field) >= 2
    /\ field[1] = "\"" /\ field[Len(field)] = "\""
    /\ \A b, e \in 2..(Len(field) - 1) :
          ( /\ b <= e
            /\ \A i \in b..e : field[i] = "\""
            /\ (b = 2 \/ field[b - 1] # "\"")
            /\ (e = Len(field) - 1 \/ field[e + 1] # "\"") ) => (e - b + 1) % 2 = 0

\* the content of a quoted field, each doubled quote read as one
RECURSIVE Undoubled(_)
Undoubled(body) ==
    IF body = <<>> THEN <<>>
    ELSE IF Head(body) = "\"" /\ Len(body) >= 2
         THEN <<"\"">> \o Undoubled(Tail(Tail(body)))
         ELSE <<Head(body)>> \o Undoubled(Tail(body))

\* C21: the export is the line `row,errors` followed by one line per report
\* entry with an error, in row order; each line is the row index, a comma
\* and a quoted field which, read back, is the entry's messages joined with
\* " | ", line breaks replaced by spaces; entries without errors give no
\* line.
C21_ErrorsCSV ==
    (Exported /\ Len(fnIn.report) > 0) =>
        LET lines == SplitLines(fnOut.csv)
            bad == SelectSeq(fnIn.report, LAMBDA r : r.errors # <<>>)
        IN  /\ Len(lines) = 1 + Len(bad)
            /\ lines[1] = <<"r","o","w",",","e","r","r","o","r","s">>
            /\ \A k \in 1..Len(bad) :
                  LET idx == IntText(bad[k].index)
                      ln == lines[k + 1]
                  IN  /\ Len(ln) > Len(idx) + 1
                      /\ SubSeq(ln, 1, Len(idx) + 1) = idx \o <<",">>
                      /\ WellQuoted(SubSeq(ln, Len(idx) + 2, Len(ln)))
                      /\ Undoubled(SubSeq(ln, Len(idx) + 3, Len(ln) - 1))
                           = ReplaceAll(Join(bad[k].errors, <<" ","|"," ">>), "\n", <<" ">>)

\* C21 witness: three entries, the second without errors, the third with
\* two messages, one of them of two lines
C21_Witness ==
    /\ Exported
    /\ Len(fnIn.report) = 3
    /\ fnIn.report[1].errors = <<RequiredMsg(Str(S_a))>>
    /\ fnIn.report[2].errors = <<>>
    /\ fnIn.report[3].errors = <<MissingMsg(Str(<<"x","\n","y">>)), NumberMsg(Str(S_a))>>
    /\ Len(SplitLines(fnOut.csv)) = 3

-----------------------------------------------------------------------------
(* C22, C23, C29, C30: the column controls and the downloads (SpecColumns) *)

Saving(name) == saved # NoSave /\ saved.name = name

\* C22: the column-filtered export holds, for every row, exactly the
\* selected columns as keys, in the selected order, with the row's values,
\* for every selection, the empty one included.
C22_Projection ==
    Saving(SaveNames.selected) =>
        /\ Len(saved.body) = Len(rows)
        /\ \A k \in 1..Len(rows) :
              /\ Len(saved.body[k]) = Len(selectedCols)
              /\ \A i \in 1..Len(selectedCols) :
                    /\ saved.body[k][i][1] = selectedCols[i]
                    /\ HasOwn(rows[k], selectedCols[i])
                    /\ saved.body[k][i][2] = rows[k][selectedCols[i]]

\* C23: the full-JSON download is triggered, by a button or by the
\* keyboard shortcut, only while the validation report has no row errors.
C23_OnlyValidDownloaded ==
    Saving(SaveNames.json) => ~ComputeHasErrors(validationReport)

\* C29: the selected columns are a duplicate-free subset of the current
\* headers, and the `Select all` box is checked exactly when every current
\* header is selected.
C29_SelectionWithinHeaders ==
    ~renderPending =>
        /\ \A i, j \in 1..Len(selectedCols) : selectedCols[i] = selectedCols[j] => i = j
        /\ Range(selectedCols) \subseteq Range(headers)
        /\ Len(headers) > 0 =>
              (Len(selectedCols) = Len(headers) <=> Range(headers) \subseteq Range(selectedCols))

\* the columns of list other than x, in order
Without(list, x) == SelectSeq(list, LAMBDA h : h # x)

\* onHeaderDrop(b) while column a is dragged, a and b two displayed columns
DropMoves ==
    \A b \in Range(headers) :
        LET before == orderedHeaders(headers, headerOrder)
            after == orderedHeaders(headers', headerOrder')
        IN  ( /\ onHeaderDrop(b)
              /\ dragCol # Null
              /\ dragCol.s \in Range(before)
              /\ dragCol.s # b )
            => /\ after[IndexOf(before, b)] = dragCol.s
               /\ Without(after, dragCol.s) = Without(before, dragCol.s)

IsPermutation(list, of) ==
    /\ Len(list) = Len(of)
    /\ \A h \in Range(of) : Cardinality({i \in 1..Len(list) : list[i] = h}) = 1

\* C30: the displayed column order is a permutation of the current
\* headers, and a drop of column a onto column b moves a to b's position
\* and keeps the relative order of the other columns.
C30_OrderIsPermutation ==
    /\ [](IsPermutation(orderedHeaders(headers, headerOrder), headers))
    /\ [][DropMoves]_vars

\* C30 witness: after drops the first column is displayed last and the
\* order is no rotation of the file's
C30_Witness ==
    /\ ~renderPending
    /\ headers = <<S_name, S_email, S_age>>
    /\ orderedHeaders(headers, headerOrder) = <<S_age, S_email, S_name>>
    /\ dragCol = Null
=============================================================================
